---- MODULE Spec2Model ----
(***************************************************************************)
(* Model of server/inference_server.py: the ObjectDetectionServer object   *)
(* (letterbox preprocessing, YOLO output decoding, red-blob fallback,      *)
(* detect with its statistics) and the Flask handlers that share the one   *)
(* global detector between request threads (app.run(threaded=True)).       *)
(***************************************************************************)
EXTENDS Integers, Sequences, FiniteSets, TLC

(***************************************************************************)
(* Python floats.  target_w / w, w * scale and int(...) in preprocess_image *)
(* are IEEE 754 binary64 operations.  A positive double is modelled        *)
(* exactly as [m, e]: m is its 53-bit significand, most significant bit    *)
(* first (m[1] = 1), and e the exponent of that bit, so the value is       *)
(* m * 2^(e - 52).  Bit strings keep every intermediate number small.      *)
(***************************************************************************)
Prec == 53

RECURSIVE Pow2(_)
Pow2(k) == IF k = 0 THEN 1 ELSE 2 * Pow2(k - 1)

\* Bit strings are cut into limbs of LimbBits bits for arithmetic, so that
\* every product stays below 2^31.
LimbBits == Prec \div 4 + 1

Min(a, b) == IF a < b THEN a ELSE b

\* The k-bit binary expansion of n < 2^k, most significant bit first.
Bits(n, k) == [i \in 1..k |-> (n \div Pow2(k - i)) % 2]

RECURSIVE BitLength(_)
BitLength(n) == IF n <= 1 THEN 1 ELSE 1 + BitLength(n \div 2)

IntToBits(n) == Bits(n, BitLength(n))

RECURSIVE BitsToInt(_)
BitsToInt(b) ==
    IF b = <<>> THEN 0
    ELSE 2 * BitsToInt(SubSeq(b, 1, Len(b) - 1)) + b[Len(b)]

Zeros(n) == [i \in 1..n |-> 0]

\* The position of the last bit with value v in b, 0 when there is none.
LastBit(b, v) ==
    IF \E i \in 1..Len(b) : b[i] = v
    THEN CHOOSE i \in 1..Len(b) :
            b[i] = v /\ \A j \in (i + 1)..Len(b) : b[j] # v
    ELSE 0

StripZeros(b) == SubSeq(b, 1, IF LastBit(b, 1) = 0 THEN 1 ELSE LastBit(b, 1))

\* b + 1: the carry runs up to the last 0 bit.
Incr(b) ==
    LET p == LastBit(b, 0)
    IN  IF p = 0 THEN <<1>> \o Zeros(Len(b))
        ELSE [i \in 1..Len(b) |-> IF i < p THEN b[i] ELSE IF i = p THEN 1 ELSE 0]

\* Round to nearest, ties to even: bits is the exact value's binary
\* expansion from the bit of weight 2^e down, sticky says that non-zero
\* bits follow it.
RoundNearestEven(bits, e, sticky) ==
    IF Len(bits) <= Prec
    THEN [m |-> bits \o Zeros(Prec - Len(bits)), e |-> e]
    ELSE LET head  == SubSeq(bits, 1, Prec)
             guard == bits[Prec + 1]
             tail  == sticky \/ \E i \in (Prec + 2)..Len(bits) : bits[i] = 1
             up    == guard = 1 /\ (tail \/ head[Prec] = 1)
             inc   == Incr(head)
         IN  IF ~up THEN [m |-> head, e |-> e]
             ELSE IF Len(inc) > Prec
                  THEN [m |-> SubSeq(inc, 1, Prec), e |-> e + 1]
                  ELSE [m |-> inc, e |-> e]

\* float(n) for an int 1 <= n < 2^31: exact.
FloatOfInt(n) ==
    LET b == IntToBits(n) IN [m |-> b \o Zeros(Prec - Len(b)), e |-> Len(b) - 1]

\* The next n bits of r / B for 0 <= r < B, and the remainder left; a limb
\* of bits per step.
RECURSIVE QuotientBits(_, _, _)
QuotientBits(r, B, n) ==
    IF n = 0 THEN <<<<>>, r>>
    ELSE LET k    == Min(n, LimbBits)
             num  == r * Pow2(k)
             rest == QuotientBits(num % B, B, n - k)
         IN  <<Bits(num \div B, k) \o rest[1], rest[2]>>

\* a / b for ints a, b >= 1 (Python's int true division is correctly
\* rounded): long division to 53 bits and a guard bit, then rounding.
TrueDiv(a, b) ==
    LET d  == BitLength(a) - BitLength(b)
        A0 == a * Pow2(IF d < 0 THEN -d ELSE 0)
        B  == b * Pow2(IF d > 0 THEN d ELSE 0)
        A  == IF A0 >= B THEN A0 ELSE 2 * A0
        e  == IF A0 >= B THEN d ELSE d - 1
        q  == QuotientBits(A - B, B, Prec)
    IN  RoundNearestEven(<<1>> \o q[1], e, q[2] # 0)

\* bits * n + c for a bit string and small naturals n, c; a limb of bits
\* per step, from the least significant end.
RECURSIVE MulSmall(_, _, _)
MulSmall(b, n, c) ==
    IF b = <<>> THEN (IF c = 0 THEN <<>> ELSE IntToBits(c))
    ELSE LET k == Min(Len(b), LimbBits)
             v == BitsToInt(SubSeq(b, Len(b) - k + 1, Len(b))) * n + c
         IN  MulSmall(SubSeq(b, 1, Len(b) - k), n, v \div Pow2(k))
                 \o Bits(v % Pow2(k), k)

\* x * y for doubles, x of few significant bits (a converted int): the
\* exact product, rounded once.
FMul(x, y) ==
    LET xs == StripZeros(x.m)
        p  == MulSmall(y.m, BitsToInt(xs), 0)
    IN  RoundNearestEven(p, (x.e - (Len(xs) - 1)) + y.e + (Len(p) - Prec), FALSE)

FLess(x, y) ==
    \/ x.e < y.e
    \/ /\ x.e = y.e
       /\ \E i \in 1..Prec : /\ x.m[i] < y.m[i]
                             /\ \A j \in 1..(i - 1) : x.m[j] = y.m[j]

\* Python's min(x, y): the first argument unless the second is smaller.
FMin(x, y) == IF FLess(y, x) THEN y ELSE x

\* int(x): truncation toward zero.
FTrunc(x) == IF x.e < 0 THEN 0 ELSE BitsToInt(SubSeq(x.m, 1, x.e + 1))

(***************************************************************************)
(* Exact rationals <<n, d>>, d > 0, for the decoder's box arithmetic.  The *)
(* decoder inputs used below are dyadic (small multiples of powers of two  *)
(* over sizes such as 640), for which the float32/float64 operations of    *)
(* the code are exact, so exact rationals compute what the code computes.  *)
(***************************************************************************)
RECURSIVE Gcd(_, _)
Gcd(a, b) == IF b = 0 THEN a ELSE Gcd(b, a % b)

Abs(x) == IF x < 0 THEN -x ELSE x

Rat(n, d) ==
    LET s == IF d < 0 THEN -1 ELSE 1
        g == Gcd(Abs(n), Abs(d))
    IN  <<(s * n) \div g, (s * d) \div g>>

RInt(n)    == <<n, 1>>
RSub(x, y) == Rat(x[1] * y[2] - y[1] * x[2], x[2] * y[2])
RAdd(x, y) == Rat(x[1] * y[2] + y[1] * x[2], x[2] * y[2])
RDiv(x, y) == Rat(x[1] * y[2], x[2] * y[1])
RLeq(x, y) == x[1] * y[2] <= y[1] * x[2]
RLess(x, y) == x[1] * y[2] < y[1] * x[2]
\* Python's max(a, b) / min(a, b): the first argument unless the second is
\* strictly larger / smaller.
RMax(x, y) == IF RLess(x, y) THEN y ELSE x
RMin(x, y) == IF RLess(y, x) THEN y ELSE x

\* The exact value of a double whose significand has few non-zero bits.
FToRat(x) ==
    LET xs == StripZeros(x.m)
        k  == x.e - (Len(xs) - 1)
    IN  IF k >= 0 THEN <<BitsToInt(xs) * Pow2(k), 1>>
        ELSE <<BitsToInt(xs), Pow2(-k)>>

\* Mutant of preprocess_image: the scale fills the canvas (max) instead of
\* fitting inside it (min).
preprocess_image_fill(image, shape) ==
    LET h        == image.h
        w        == image.w
        target_h == shape[1]
        target_w == shape[2]
    IN  IF w = 0 \/ h = 0 \/ ~image.rgb THEN [ok |-> FALSE]
        ELSE
        LET a     == TrueDiv(target_w, w)
            b     == TrueDiv(target_h, h)
            scale == IF FLess(a, b) THEN b ELSE a
            new_w == FTrunc(FMul(FloatOfInt(w), scale))
            new_h == FTrunc(FMul(FloatOfInt(h), scale))
        IN  [ok    |-> TRUE,
             scale |-> scale,
             new_w |-> new_w,
             new_h |-> new_h,
             pad_x |-> (target_w - new_w) \div 2,
             pad_y |-> (target_h - new_h) \div 2]

(***************************************************************************)
(* preprocess_image (lines 103-132).  An image is its shape and, for the   *)
(* fallback detector, the red contours in it: [h, w, rgb, blobs].  The     *)
(* result is the transform context with the resized size, or the failure   *)
(* the code raises: h = 0 or w = 0 divides by zero at line 110,            *)
(* cv2.resize rejects an empty destination size at line 114, and an array  *)
(* that is not h x w x 3 does not fit the padded canvas at line 124.       *)
(***************************************************************************)
preprocess_image(image, shape) ==
    LET h        == image.h
        w        == image.w
        target_h == shape[1]
        target_w == shape[2]
    IN  IF w = 0 \/ h = 0 \/ ~image.rgb THEN [ok |-> FALSE]
        ELSE
        LET scale == FMin(TrueDiv(target_w, w), TrueDiv(target_h, h))
            new_w == FTrunc(FMul(FloatOfInt(w), scale))
            new_h == FTrunc(FMul(FloatOfInt(h), scale))
        IN  IF new_w = 0 \/ new_h = 0 THEN [ok |-> FALSE]
            ELSE [ok    |-> TRUE,
                  scale |-> scale,
                  new_w |-> new_w,
                  new_h |-> new_h,
                  pad_x |-> (target_w - new_w) \div 2,
                  pad_y |-> (target_h - new_h) \div 2]


(***************************************************************************)
(* Scores, rows of the backend output and detections.  A score is a        *)
(* rational on the grid k / ScoreScale.  A raw row is [box, conf, cls]:    *)
(* box = <<cx, cy, w, h>> in model space, conf the object confidence, cls  *)
(* the class scores (at least one).  A backend output is [ok, rows]; ok is *)
(* FALSE for an output that outputs[0][0] or predictions[:, 4] cannot      *)
(* index (lines 140-143), which raises inside postprocess_detections.      *)
(***************************************************************************)
ScoreScale == Pow2(2)
Score(k)   == Rat(k, ScoreScale)
RMul(x, y) == Rat(x[1] * y[1], x[2] * y[2])

class_names == <<
    "person", "bicycle", "car", "motorcycle", "airplane", "bus", "train", "truck",
    "boat", "traffic light", "fire hydrant", "stop sign", "parking meter", "bench",
    "bird", "cat", "dog", "horse", "sheep", "cow", "elephant", "bear", "zebra",
    "giraffe", "backpack", "umbrella", "handbag", "tie", "suitcase", "frisbee",
    "skis", "snowboard", "sports ball", "kite", "baseball bat", "baseball glove",
    "skateboard", "surfboard", "tennis racket", "bottle", "wine glass", "cup",
    "fork", "knife", "spoon", "bowl", "banana", "apple", "sandwich", "orange",
    "broccoli", "carrot", "hot dog", "pizza", "donut", "cake", "chair", "couch",
    "potted plant", "bed", "dining table", "toilet", "tv", "laptop", "mouse",
    "remote", "keyboard", "cell phone", "microwave", "oven", "toaster", "sink",
    "refrigerator", "book", "clock", "vase", "scissors", "teddy bear", "hair drier",
    "toothbrush" >>

\* np.max / np.argmax over the class scores of one row (lines 157-158):
\* argmax is the first index of the maximum, counted from 0.
class_confidence(row) ==
    CHOOSE m \in {row.cls[i] : i \in 1..Len(row.cls)} :
        \A i \in 1..Len(row.cls) : RLeq(row.cls[i], m)

class_id_of(row) ==
    (CHOOSE i \in 1..Len(row.cls) :
        /\ row.cls[i] = class_confidence(row)
        /\ \A j \in 1..(i - 1) : row.cls[j] # class_confidence(row)) - 1

\* Line 161.
final_confidence(row) == RMul(row.conf, class_confidence(row))

\* Line 184; the synthesized label class_<id> is the pair <<"class_", id>>.
class_name(class_id) ==
    IF class_id < Len(class_names) THEN <<class_names[class_id + 1]>>
    ELSE <<"class_", class_id>>

\* Lines 169-193: one surviving row turned into a detection.  scale is the
\* exact value of the double preprocess_image returned.
make_detection(row, original_shape, scale, padding) ==
    LET pad_x    == padding[1]
        pad_y    == padding[2]
        orig_h   == original_shape[1]
        orig_w   == original_shape[2]
        x_center == RDiv(RInt(row.box[1] - pad_x), scale)
        y_center == RDiv(RInt(row.box[2] - pad_y), scale)
        width    == RDiv(RInt(row.box[3]), scale)
        height   == RDiv(RInt(row.box[4]), scale)
        half_w   == RDiv(width, RInt(2))
        half_h   == RDiv(height, RInt(2))
        x1 == RMax(RInt(0), RDiv(RSub(x_center, half_w), RInt(orig_w)))
        y1 == RMax(RInt(0), RDiv(RSub(y_center, half_h), RInt(orig_h)))
        x2 == RMin(RInt(1), RDiv(RAdd(x_center, half_w), RInt(orig_w)))
        y2 == RMin(RInt(1), RDiv(RAdd(y_center, half_h), RInt(orig_h)))
    IN  [label |-> class_name(class_id_of(row)),
         score |-> final_confidence(row),
         xmin  |-> x1,
         ymin  |-> y1,
         xmax  |-> x2,
         ymax  |-> y2]

\* Lines 143-149: the rows whose object confidence exceeds the threshold,
\* in their order.
RECURSIVE valid_predictions(_, _)
valid_predictions(rows, threshold) ==
    IF rows = <<>> THEN <<>>
    ELSE IF RLess(threshold, Head(rows).conf)
         THEN <<Head(rows)>> \o valid_predictions(Tail(rows), threshold)
         ELSE valid_predictions(Tail(rows), threshold)

(***************************************************************************)
(* fallback_detection (lines 200-237).  The image carries the external     *)
(* contours of its red mask as blobs [area, x, y, cw, ch]; cv2.cvtColor    *)
(* rejects an image that is not a 3-channel array (line 206).              *)
(***************************************************************************)
MinArea == 500

RECURSIVE fallback_boxes(_, _)
fallback_boxes(image, blobs) ==
    IF blobs = <<>> THEN <<>>
    ELSE LET c == Head(blobs)
             d == [label |-> <<"red_object">>,
                   score |-> Rat(8, 10),
                   xmin  |-> Rat(c.x, image.w),
                   ymin  |-> Rat(c.y, image.h),
                   xmax  |-> Rat(c.x + c.cw, image.w),
                   ymax  |-> Rat(c.y + c.ch, image.h)]
         IN  IF c.area > MinArea
             THEN <<d>> \o fallback_boxes(image, Tail(blobs))
             ELSE fallback_boxes(image, Tail(blobs))

fallback_detection(image) ==
    IF ~image.rgb \/ image.h = 0 \/ image.w = 0 THEN [ok |-> FALSE, detections |-> <<>>]
    ELSE [ok |-> TRUE, detections |-> fallback_boxes(image, image.blobs)]

(***************************************************************************)
(* The server.  detector is one process-wide object (line 285); Flask's    *)
(* threaded server (line 363) runs each request on its own thread, so the  *)
(* handlers interleave between any two accesses to the detector's fields.  *)
(* A step of a thread is the code between two such accesses.               *)
(***************************************************************************)
Threads == {1, 2}

\* Bounds of the model: detect calls admitted, ticks one call may take,
\* rows in one backend output.
MaxCalls   == 3
MaxElapsed == 1
MaxRows    == 2

Elapsed == 1..MaxElapsed

DefaultThreshold  == Score(ScoreScale \div 2)
DefaultInputShape == <<640, 640>>

VARIABLES
    session,               \* self.session: "InferenceSession" or "None"
    input_shape,           \* self.input_shape = <<height, width>>
    confidence_threshold,  \* self.confidence_threshold
    inference_count,       \* self.inference_count
    total_inference_time,  \* self.total_inference_time, in clock ticks
    pc,                    \* where each thread is
    request,               \* what each thread is serving: [route, body]
    image,                 \* detect's argument
    ctx,                   \* preprocess_image's result
    outputs,               \* session.run's result
    valid,                 \* valid_predictions not yet visited by the loop
    detections,            \* the list being built / returned
    tmp,                   \* the value loaded by a += before it is stored
    inference_time,        \* detect's local inference_time
    response,              \* the HTTP response of the handler
    threshold_read,        \* history: the threshold line 144 compared with
    failed,                \* history: the stage of this call that raised
    calls,                 \* history: detect calls entered
    returned,              \* history: detect calls returned by line 264
    excepted               \* history: detect calls returned by line 268

shared == <<session, input_shape, confidence_threshold, inference_count,
            total_inference_time>>
locals == <<image, ctx, outputs, valid, detections, tmp, inference_time, response,
            threshold_read, failed>>
counts == <<calls, returned, excepted>>
vars   == <<shared, pc, request, locals, counts>>

NoImage    == [h |-> 0, w |-> 0, rgb |-> FALSE, blobs |-> <<>>]
NoCtx      == [ok |-> FALSE]
NoOutputs  == [ok |-> FALSE, rows |-> <<>>]
NoResponse == [status |-> 0]
NoRequest  == [route |-> "", body |-> ""]

\* initialize_model (lines 54-84): a session exists only if the model file
\* is there and ONNX Runtime loads it; every other outcome, an exception
\* included, leaves self.session = None and the default input shape.
initialize_model(model_exists, load_ok, model_shape) ==
    IF model_exists /\ load_ok
    THEN [session |-> "InferenceSession", input_shape |-> model_shape]
    ELSE [session |-> "None", input_shape |-> DefaultInputShape]

\* __init__ (lines 25-36) and the idle threads of the server.
Construct(ModelShapes, Outcomes) ==
    /\ \E o \in Outcomes, shape \in ModelShapes :
          LET m == initialize_model(o[1], o[2], shape)
          IN  /\ session = m.session
              /\ input_shape = m.input_shape
    /\ confidence_threshold = DefaultThreshold
    /\ inference_count = 0
    /\ total_inference_time = 0
    /\ pc = [t \in Threads |-> "idle"]
    /\ request = [t \in Threads |-> NoRequest]
    /\ image = [t \in Threads |-> NoImage]
    /\ ctx = [t \in Threads |-> NoCtx]
    /\ outputs = [t \in Threads |-> NoOutputs]
    /\ valid = [t \in Threads |-> <<>>]
    /\ detections = [t \in Threads |-> <<>>]
    /\ tmp = [t \in Threads |-> 0]
    /\ inference_time = [t \in Threads |-> 0]
    /\ response = [t \in Threads |-> NoResponse]
    /\ threshold_read = [t \in Threads |-> DefaultThreshold]
    /\ failed = [t \in Threads |-> "none"]
    /\ calls = 0
    /\ returned = 0
    /\ excepted = 0

\* detect_objects up to the call of detector.detect (lines 299-314), by the
\* kind of request body:
\*   "invalid_json"  get_json raises BadRequest, an Exception  -> line 333
\*   "null"          data is None, 'image' not in None raises  -> line 333
\*   "array"         a JSON list, which has no 'image' member  -> line 303
\*   "no_image"      a JSON object without the key             -> line 303
\*   "not_string"    image is a number, .startswith raises     -> line 333
\*   "undecodable"   b64decode or Image.open raises            -> line 333
\*   "image"         a decodable picture, given as body.image
\* Mutant of parse_request: every request that cannot be served is
\* answered with 400.
parse_request_400(body) ==
    IF body.kind = "image" THEN [status |-> 200]
    ELSE [status |-> 400, error |-> "No image provided"]

parse_request(body) ==
    CASE body.kind \in {"array", "no_image"} ->
            [status |-> 400, error |-> "No image provided"]
      [] body.kind \in {"invalid_json", "null", "not_string", "undecodable"} ->
            [status |-> 500, error |-> "str(e)"]
      [] OTHER -> [status |-> 200]

Go(t, to) == pc' = [pc EXCEPT ![t] = to]

\* POST /detect (lines 296-317).
DetectRequest(t, Bodies, budget) ==
    /\ pc[t] = "idle"
    /\ \E body \in Bodies :
          LET r == parse_request(body)
          IN  /\ request' = [request EXCEPT ![t] =
                    [route |-> "POST /detect", body |-> body.kind]]
              /\ IF r.status = 200
                 THEN /\ calls < budget
                      /\ calls' = calls + 1
                      /\ image' = [image EXCEPT ![t] = body.image]
                      /\ Go(t, "detect")
                      /\ UNCHANGED response
                 ELSE /\ response' = [response EXCEPT ![t] = r]
                      /\ Go(t, "respond")
                      /\ UNCHANGED <<calls, image>>
    /\ UNCHANGED <<shared, ctx, outputs, valid, detections, tmp, inference_time,
                   threshold_read, failed, returned, excepted>>

\* detect(image) called on the detector from inside the process, with any
\* array a caller may hold.
CallDetect(t, Images, budget) ==
    /\ pc[t] = "idle"
    /\ calls < budget
    /\ calls' = calls + 1
    /\ \E img \in Images : image' = [image EXCEPT ![t] = img]
    /\ request' = [request EXCEPT ![t] = [route |-> "detect()", body |-> ""]]
    /\ Go(t, "detect")
    /\ UNCHANGED <<shared, ctx, outputs, valid, detections, tmp, inference_time,
                   response, threshold_read, failed, returned, excepted>>

\* Lines 241-244: the mode is read from self.session on every call.
DetectBranch(t) ==
    /\ pc[t] = "detect"
    /\ Go(t, IF session # "None" THEN "preprocess" ELSE "fallback")
    /\ UNCHANGED <<shared, request, locals, counts>>

\* Line 246.
Preprocess(t) ==
    /\ pc[t] = "preprocess"
    /\ LET r == preprocess_image(image[t], input_shape)
       IN  IF r.ok
           THEN /\ ctx' = [ctx EXCEPT ![t] = r]
                /\ Go(t, "run")
                /\ UNCHANGED failed
           ELSE /\ failed' = [failed EXCEPT ![t] = "preprocess"]
                /\ Go(t, "except")
                /\ UNCHANGED ctx
    /\ UNCHANGED <<shared, request, image, outputs, valid, detections, tmp,
                   inference_time, response, threshold_read, counts>>

\* Line 249: the backend is opaque; it returns some output or raises.
Run(t, Outputs) ==
    /\ pc[t] = "run"
    /\ \/ /\ \E o \in Outputs : outputs' = [outputs EXCEPT ![t] = o]
          /\ Go(t, "decode")
          /\ UNCHANGED failed
       \/ /\ failed' = [failed EXCEPT ![t] = "backend"]
          /\ Go(t, "except")
          /\ UNCHANGED outputs
    /\ UNCHANGED <<shared, request, image, ctx, valid, detections, tmp,
                   inference_time, response, threshold_read, counts>>

\* postprocess_detections, lines 136-165: the first filter reads the
\* threshold once, for all rows.  An output that cannot be indexed raises
\* here, which line 195 catches, and line 198 returns the list as it is.
DecodeFilter(t) ==
    /\ pc[t] = "decode"
    /\ IF ~outputs[t].ok
       THEN /\ failed' = [failed EXCEPT ![t] = "decode"]
            /\ Go(t, "stats")
            /\ UNCHANGED <<valid, threshold_read>>
       ELSE LET v == valid_predictions(outputs[t].rows, confidence_threshold)
            IN  /\ valid' = [valid EXCEPT ![t] = v]
                /\ threshold_read' = [threshold_read EXCEPT ![t] = confidence_threshold]
                /\ Go(t, IF v = <<>> THEN "stats" ELSE "rows")
                /\ UNCHANGED failed
    /\ detections' = [detections EXCEPT ![t] = <<>>]
    /\ UNCHANGED <<shared, request, image, ctx, outputs, tmp, inference_time,
                   response, counts>>

\* Mutant of DecodeRow: line 168 compares with the threshold the first
\* filter read, as a per-call snapshot would.
DecodeRowSnapshot(t) ==
    /\ pc[t] = "rows"
    /\ LET row == Head(valid[t])
           d   == make_detection(row, <<image[t].h, image[t].w>>,
                                 FToRat(ctx[t].scale), <<ctx[t].pad_x, ctx[t].pad_y>>)
       IN  /\ detections' = [detections EXCEPT ![t] =
                 IF RLess(threshold_read[t], final_confidence(row))
                 THEN Append(@, d) ELSE @]
           /\ valid' = [valid EXCEPT ![t] = Tail(@)]
           /\ pc' = [pc EXCEPT ![t] = IF Tail(valid[t]) = <<>> THEN "stats" ELSE "rows"]
    /\ UNCHANGED <<shared, request, image, ctx, outputs, tmp, inference_time,
                   response, threshold_read, failed, counts>>

\* Mutant of DecodeRow: the second filter is left out.
DecodeRowUnfiltered(t) ==
    /\ pc[t] = "rows"
    /\ LET row == Head(valid[t])
           d   == make_detection(row, <<image[t].h, image[t].w>>,
                                 FToRat(ctx[t].scale), <<ctx[t].pad_x, ctx[t].pad_y>>)
       IN  /\ detections' = [detections EXCEPT ![t] = Append(@, d)]
           /\ valid' = [valid EXCEPT ![t] = Tail(@)]
           /\ pc' = [pc EXCEPT ![t] = IF Tail(valid[t]) = <<>> THEN "stats" ELSE "rows"]
    /\ UNCHANGED <<shared, request, image, ctx, outputs, tmp, inference_time,
                   response, threshold_read, failed, counts>>

\* One iteration of the loop of lines 167-193: line 168 reads the threshold
\* again, for this row.
DecodeRow(t) ==
    /\ pc[t] = "rows"
    /\ LET row == Head(valid[t])
           d   == make_detection(row, <<image[t].h, image[t].w>>,
                                 FToRat(ctx[t].scale), <<ctx[t].pad_x, ctx[t].pad_y>>)
       IN  /\ detections' = [detections EXCEPT ![t] =
                 IF RLess(confidence_threshold, final_confidence(row))
                 THEN Append(@, d) ELSE @]
           /\ valid' = [valid EXCEPT ![t] = Tail(@)]
           /\ Go(t, IF Tail(valid[t]) = <<>> THEN "stats" ELSE "rows")
    /\ UNCHANGED <<shared, request, image, ctx, outputs, tmp, inference_time,
                   response, threshold_read, failed, counts>>

\* Line 255.
Fallback(t) ==
    /\ pc[t] = "fallback"
    /\ LET r == fallback_detection(image[t])
       IN  IF r.ok
           THEN /\ detections' = [detections EXCEPT ![t] = r.detections]
                /\ Go(t, "stats")
                /\ UNCHANGED failed
           ELSE /\ failed' = [failed EXCEPT ![t] = "fallback"]
                /\ Go(t, "except")
                /\ UNCHANGED detections
    /\ UNCHANGED <<shared, request, image, ctx, outputs, valid, tmp, inference_time,
                   response, threshold_read, counts>>

\* Lines 258-259: the elapsed time is taken and inference_count is loaded.
LoadCount(t) ==
    /\ pc[t] = "stats"
    /\ \E e \in Elapsed : inference_time' = [inference_time EXCEPT ![t] = e]
    /\ tmp' = [tmp EXCEPT ![t] = inference_count]
    /\ Go(t, "store_count")
    /\ UNCHANGED <<shared, request, image, ctx, outputs, valid, detections,
                   response, threshold_read, failed, counts>>

\* Mutant of StoreCount: an atomic increment of the current value.
StoreCountAtomic(t) ==
    /\ pc[t] = "store_count"
    /\ inference_count' = inference_count + 1
    /\ pc' = [pc EXCEPT ![t] = "load_time"]
    /\ UNCHANGED <<session, input_shape, confidence_threshold, total_inference_time,
                   request, locals, counts>>

\* Line 259: the loaded value plus one is stored.
StoreCount(t) ==
    /\ pc[t] = "store_count"
    /\ inference_count' = tmp[t] + 1
    /\ Go(t, "load_time")
    /\ UNCHANGED <<session, input_shape, confidence_threshold, total_inference_time,
                   request, locals, counts>>

\* Line 260: total_inference_time is loaded ...
LoadTime(t) ==
    /\ pc[t] = "load_time"
    /\ tmp' = [tmp EXCEPT ![t] = total_inference_time]
    /\ Go(t, "store_time")
    /\ UNCHANGED <<shared, request, image, ctx, outputs, valid, detections,
                   inference_time, response, threshold_read, failed, counts>>

\* ... and stored with the elapsed time added; lines 262-264 return.
StoreTime(t) ==
    /\ pc[t] = "store_time"
    /\ total_inference_time' = tmp[t] + inference_time[t]
    /\ returned' = returned + 1
    /\ Go(t, "return")
    /\ UNCHANGED <<session, input_shape, confidence_threshold, inference_count,
                   request, locals, calls, excepted>>

\* Mutant of DetectExcept: the exception goes on to the caller.
DetectExceptReraise(t) ==
    /\ pc[t] = "except"
    /\ excepted' = excepted + 1
    /\ pc' = [pc EXCEPT ![t] = "raised"]
    /\ UNCHANGED <<shared, request, locals, calls, returned>>

\* Mutant of DetectExcept: the handler updates the statistics too, as a
\* finally clause would.
DetectExceptCounting(t) ==
    /\ pc[t] = "except"
    /\ detections' = [detections EXCEPT ![t] = <<>>]
    /\ excepted' = excepted + 1
    /\ inference_count' = inference_count + 1
    /\ total_inference_time' = total_inference_time + 1
    /\ pc' = [pc EXCEPT ![t] = "return"]
    /\ UNCHANGED <<session, input_shape, confidence_threshold, request, image, ctx,
                   outputs, valid, tmp, inference_time, response, threshold_read,
                   failed, calls, returned>>

\* Mutant of DetectExcept: a failed call drops the backend for good.
DetectExceptDropSession(t) ==
    /\ pc[t] = "except"
    /\ detections' = [detections EXCEPT ![t] = <<>>]
    /\ excepted' = excepted + 1
    /\ session' = "None"
    /\ pc' = [pc EXCEPT ![t] = "return"]
    /\ UNCHANGED <<input_shape, confidence_threshold, inference_count,
                   total_inference_time, request, image, ctx, outputs, valid, tmp,
                   inference_time, response, threshold_read, failed, calls, returned>>

\* Lines 266-268: whatever preprocess_image, session.run or
\* fallback_detection raised ends here, past the statistics.
DetectExcept(t) ==
    /\ pc[t] = "except"
    /\ detections' = [detections EXCEPT ![t] = <<>>]
    /\ excepted' = excepted + 1
    /\ Go(t, "return")
    /\ UNCHANGED <<shared, request, image, ctx, outputs, valid, tmp, inference_time,
                   response, threshold_read, failed, calls, returned>>

\* Lines 319-329.
Respond(t) ==
    /\ pc[t] = "return"
    /\ request[t].route = "POST /detect"
    /\ response' = [response EXCEPT ![t] =
          [status |-> 200, detections |-> detections[t],
           detection_count |-> Len(detections[t])]]
    /\ Go(t, "respond")
    /\ UNCHANGED <<shared, request, image, ctx, outputs, valid, detections, tmp,
                   inference_time, threshold_read, failed, counts>>

\* The request is over: the thread's locals are gone.
Close(t) ==
    /\ \/ pc[t] = "respond"
       \/ pc[t] = "return" /\ request[t].route = "detect()"
    /\ Go(t, "idle")
    /\ request' = [request EXCEPT ![t] = NoRequest]
    /\ image' = [image EXCEPT ![t] = NoImage]
    /\ ctx' = [ctx EXCEPT ![t] = NoCtx]
    /\ outputs' = [outputs EXCEPT ![t] = NoOutputs]
    /\ valid' = [valid EXCEPT ![t] = <<>>]
    /\ detections' = [detections EXCEPT ![t] = <<>>]
    /\ tmp' = [tmp EXCEPT ![t] = 0]
    /\ inference_time' = [inference_time EXCEPT ![t] = 0]
    /\ response' = [response EXCEPT ![t] = NoResponse]
    /\ threshold_read' = [threshold_read EXCEPT ![t] = DefaultThreshold]
    /\ failed' = [failed EXCEPT ![t] = "none"]
    /\ UNCHANGED <<shared, counts>>

\* get_stats (lines 270-282).
get_stats ==
    [inference_count |-> inference_count,
     average_inference_time |->
        IF inference_count > 0 THEN Rat(total_inference_time, inference_count)
        ELSE RInt(0),
     model_loaded |-> session # "None",
     input_shape |-> input_shape,
     confidence_threshold |-> confidence_threshold]

Answer(t, route, body) ==
    /\ pc[t] = "idle"
    /\ request' = [request EXCEPT ![t] = [route |-> route, body |-> ""]]
    /\ response' = [response EXCEPT ![t] = body]
    /\ Go(t, "respond")
    /\ UNCHANGED <<image, ctx, outputs, valid, detections, tmp, inference_time,
                   threshold_read, failed, counts>>

\* Mutant of GetStats: reading the statistics resets them.
GetStatsReset(t) ==
    /\ Answer(t, "GET /stats", [status |-> 200, stats |-> get_stats])
    /\ inference_count' = 0
    /\ total_inference_time' = 0
    /\ UNCHANGED <<session, input_shape, confidence_threshold>>

\* GET /stats (lines 335-338).
GetStats(t) ==
    /\ Answer(t, "GET /stats", [status |-> 200, stats |-> get_stats])
    /\ UNCHANGED shared

\* GET /health (lines 287-294).
HealthCheck(t) ==
    /\ Answer(t, "GET /health", [status |-> 200, model_loaded |-> session # "None"])
    /\ UNCHANGED shared

\* GET /config (lines 343-348).
GetConfig(t) ==
    /\ Answer(t, "GET /config",
              [status |-> 200, confidence_threshold |-> confidence_threshold,
               input_shape |-> input_shape])
    /\ UNCHANGED shared

\* POST /config (lines 349-354): the value is stored as given, unvalidated;
\* a body without the key changes nothing.
PostConfig(t, Values) ==
    /\ Answer(t, "POST /config", [status |-> 200, message |-> "Configuration updated"])
    /\ \/ \E v \in Values : confidence_threshold' = v
       \/ UNCHANGED confidence_threshold
    /\ UNCHANGED <<session, input_shape, inference_count, total_inference_time>>

(***************************************************************************)
(* Inputs.  Pictures: a 640x480 frame with one large and one small red     *)
(* contour, a 1280x1280 frame, a 2000x1 strip (its resized height is 0),   *)
(* and a grayscale array, which only a direct caller of detect can pass    *)
(* (detect_objects converts every picture to RGB, line 314).  For these    *)
(* shapes the letterbox scale is a power of two, so the decoder's float    *)
(* arithmetic on the rows below is exact.                                  *)
(***************************************************************************)
Frame == [h |-> 480, w |-> 640, rgb |-> TRUE,
          blobs |-> <<[area |-> 900, x |-> 16, y |-> 32, cw |-> 32, ch |-> 32],
                      [area |-> 100, x |-> 320, y |-> 240, cw |-> 16, ch |-> 8]>>]
LargeFrame == [h |-> 1280, w |-> 1280, rgb |-> TRUE, blobs |-> <<>>]
Strip == [h |-> 1, w |-> 2000, rgb |-> TRUE, blobs |-> <<>>]
Gray  == [h |-> 480, w |-> 640, rgb |-> FALSE, blobs |-> <<>>]

Picture(img) == [kind |-> "image", image |-> img]
BadBodies ==
    {[kind |-> k, image |-> NoImage] :
        k \in {"invalid_json", "null", "array", "no_image", "not_string", "undecodable"}}

Row(box, conf, cls) == [box |-> box, conf |-> conf, cls |-> cls]
InsideBox == <<320, 320, 64, 64>>
RowA == Row(InsideBox, Score(4), <<Score(4), Score(0)>>)
RowB == Row(<<96, 160, 64, 32>>, Score(3), <<Score(1), Score(4)>>)

\* Rows that differ in their confidences, and rows that differ in where
\* the box lies: across the left edge, right of the image, above it.
ConfRows ==
    {Row(InsideBox, Score(c), cls) :
        c \in 2..4,
        cls \in {<<Score(4), Score(0)>>, <<Score(2), Score(3)>>, <<Score(1), Score(1)>>}}
BoxRows ==
    {Row(box, Score(4), <<Score(0), Score(4)>>) :
        box \in {<<16, 320, 64, 64>>, <<704, 320, 64, 64>>, <<320, 16, 64, 64>>}}

SeqsUpTo(S, n) == UNION {[1..k -> S] : k \in 0..n}
Output(rows)   == [ok |-> TRUE, rows |-> rows]
ServerOutputs  == {NoOutputs, Output(<<RowA, RowB>>)}
DecoderOutputs == {NoOutputs} \cup {Output(r) : r \in SeqsUpTo(ConfRows \cup BoxRows, MaxRows)}

ConfigValues == {Score(2), Score(4)}
AllScores    == {Score(k) : k \in 0..ScoreScale}

(***************************************************************************)
(* Spec: the threaded server.                                              *)
(***************************************************************************)
Init == Construct({DefaultInputShape}, BOOLEAN \X BOOLEAN)

Step(t) ==
    \/ DetectRequest(t, BadBodies \cup {Picture(Frame), Picture(Strip)}, MaxCalls)
    \/ CallDetect(t, {Gray}, MaxCalls)
    \/ DetectBranch(t)
    \/ Preprocess(t)
    \/ Run(t, ServerOutputs)
    \/ DecodeFilter(t)
    \/ DecodeRow(t)
    \/ Fallback(t)
    \/ LoadCount(t)
    \/ StoreCount(t)
    \/ LoadTime(t)
    \/ StoreTime(t)
    \/ DetectExcept(t)
    \/ Respond(t)
    \/ Close(t)
    \/ GetStats(t)
    \/ HealthCheck(t)
    \/ GetConfig(t)
    \/ PostConfig(t, ConfigValues)

Next == \E t \in Threads : Step(t)

Spec == Init /\ [][Next]_vars

(***************************************************************************)
(* SpecSeq: the same server answering one request at a time.               *)
(***************************************************************************)
NextSeq == Step(1)

SpecSeq == Init /\ [][NextSeq]_vars

(***************************************************************************)
(* SpecDecoder: one backend-mode detect call over every output of up to    *)
(* MaxRows rows, under any threshold POST /config has set before it.       *)
(***************************************************************************)
InitDecoder == Construct({DefaultInputShape}, {<<TRUE, TRUE>>})

NextDecoder ==
    \/ PostConfig(1, AllScores)
    \/ DetectRequest(1, {Picture(Frame), Picture(LargeFrame)}, 1)
    \/ DetectBranch(1)
    \/ Preprocess(1)
    \/ Run(1, DecoderOutputs)
    \/ DecodeFilter(1)
    \/ DecodeRow(1)
    \/ LoadCount(1)
    \/ StoreCount(1)
    \/ LoadTime(1)
    \/ StoreTime(1)
    \/ DetectExcept(1)
    \/ Respond(1)
    \/ Close(1)

SpecDecoder == InitDecoder /\ [][NextDecoder]_vars

(***************************************************************************)
(* SpecLetterbox: preprocess_image over every picture of up to MaxDim by   *)
(* MaxDim pixels, for a square and a wide model input.                     *)
(***************************************************************************)
MaxDim == 80

LetterboxBodies ==
    {Picture([h |-> h, w |-> w, rgb |-> TRUE, blobs |-> <<>>]) :
        h \in 1..MaxDim, w \in 1..MaxDim}

InitLetterbox == Construct({DefaultInputShape, <<384, 640>>}, {<<TRUE, TRUE>>})

NextLetterbox ==
    \/ DetectRequest(1, LetterboxBodies, 1)
    \/ DetectBranch(1)
    \/ Preprocess(1)

SpecLetterbox == InitLetterbox /\ [][NextLetterbox]_vars

(***************************************************************************)
(* The claims.                                                             *)
(***************************************************************************)
Coordinates(d) == {d.xmin, d.ymin, d.xmax, d.ymax}
Returned(t)    == pc[t] = "return"
Quiet          == \A t \in Threads : pc[t] \in {"idle", "return", "respond"}

\* The decoder's result as the claims state it: the rows that pass both
\* strict comparisons with one threshold T, in the order of the output.
Maximum(S) == CHOOSE m \in S : \A v \in S : RLeq(v, m)
Passes(row, T) ==
    /\ RLess(T, row.conf)
    /\ RLess(T, RMul(row.conf, Maximum({row.cls[i] : i \in 1..Len(row.cls)})))
Survivors(rows, T) == SelectSeq(rows, LAMBDA r : Passes(r, T))
Expected(t, T) ==
    LET kept == Survivors(outputs[t].rows, T)
    IN  [i \in 1..Len(kept) |->
            make_detection(kept[i], <<image[t].h, image[t].w>>,
                           FToRat(ctx[t].scale), <<ctx[t].pad_x, ctx[t].pad_y>>)]
Decoded(t) ==
    /\ pc[t] \in {"stats", "store_count", "load_time", "store_time", "return"}
    /\ outputs[t].ok
    /\ failed[t] = "none"

\* C1: detect never raises to its caller: once a stage of a call has
\* failed (preprocessing, backend, decoding, fallback), the call is in the
\* handler or on its way to a normal return, and what it returns, and what
\* POST /detect answers with status 200, is the empty sequence.
C1_DetectNeverRaises ==
    \A t \in Threads :
        failed[t] # "none" =>
            /\ pc[t] \in {"except", "stats", "store_count", "load_time", "store_time",
                          "return", "respond"}
            /\ Returned(t) => detections[t] = <<>>
            /\ pc[t] = "respond" =>
                  response[t].status = 200 /\ response[t].detections = <<>>

\* C1 witness: two backend-mode calls have returned, one after its
\* preprocessing raised and one after its decoding raised.
C1_Witness ==
    \E t, u \in Threads :
        /\ Returned(t) /\ failed[t] = "preprocess"
        /\ Returned(u) /\ failed[u] = "decode"

\* C2 as claimed: with no call in progress, inference_count equals the
\* number of detect calls made, failed ones included.
C2_EveryCallCounted == Quiet => inference_count = calls

\* C2 amended: with no call in progress, inference_count equals the number
\* of calls that did not end in detect's except handler, and
\* total_inference_time is the sum of their elapsed times (between 1 and
\* MaxElapsed ticks each); a call whose decoding failed is among them.
C2_CountsNormalReturns ==
    Quiet =>
        /\ inference_count = calls - excepted
        /\ inference_count = returned
        /\ total_inference_time >= inference_count
        /\ total_inference_time <= inference_count * MaxElapsed

\* C2 witness: three calls, one ended in the except handler and the one
\* returning now failed in decoding: the count is 2.
C2_Witness ==
    /\ Returned(1) /\ failed[1] = "decode"
    /\ calls = 3 /\ excepted = 1 /\ inference_count = 2

\* C3 as claimed: every detection the decoder builds has its four
\* coordinates in [0,1], xmin <= xmax and ymin <= ymax.
C3_DetectionInvariant ==
    \A t \in Threads : \A i \in 1..Len(detections[t]) :
        LET d == detections[t][i]
        IN  /\ \A c \in Coordinates(d) : RLeq(RInt(0), c) /\ RLeq(c, RInt(1))
            /\ RLeq(d.xmin, d.xmax)
            /\ RLeq(d.ymin, d.ymax)

Answered(t) == pc[t] = "respond" /\ request[t].route = "POST /detect"

C5_InputErrorsAre4xx ==
    \A t \in Threads :
        (Answered(t) /\ request[t].body # "image") =>
            /\ response[t].status \in 400..499
            /\ "error" \in DOMAIN response[t]

\* C5 amended: a body without the image key (a JSON list included) is
\* answered 400 "No image provided"; a body that get_json, the key test,
\* base64 or the image decoder raises on is answered 500 with the
\* exception's message; every request is answered.
C5_InputErrorsAnswered ==
    \A t \in Threads :
        Answered(t) =>
            CASE request[t].body \in {"no_image", "array"} ->
                    response[t] = [status |-> 400, error |-> "No image provided"]
              [] request[t].body \in {"invalid_json", "null", "not_string", "undecodable"} ->
                    response[t].status = 500 /\ "error" \in DOMAIN response[t]
              [] OTHER -> response[t].status = 200

\* C5 witness: one request without the key and one with an undecodable
\* picture have both been answered.
C5_Witness ==
    \E t, u \in Threads :
        /\ Answered(t) /\ request[t].body = "no_image"
        /\ Answered(u) /\ request[u].body = "undecodable" /\ response[u].status = 500

\* C6 as claimed: no step lowers inference_count or total_inference_time.
C6_Monotonic ==
    [][/\ inference_count' >= inference_count
       /\ total_inference_time' >= total_inference_time]_vars

\* C6 amended: no step lowers a statistic unless a detect call is about to
\* store a value computed from a load that is no longer current (another
\* call stored in between); nothing else writes them.
C6_MonotonicUnlessStale ==
    [][/\ (\A t \in Threads : pc[t] = "store_count" => tmp[t] = inference_count)
            => inference_count' >= inference_count
       /\ (\A t \in Threads : pc[t] = "store_time" => tmp[t] = total_inference_time)
            => total_inference_time' >= total_inference_time]_vars

\* C6 witness: GET /stats reports two counted calls while another call is
\* between its load and its store of the count.
C6_Witness ==
    \E t, u \in Threads :
        /\ pc[t] = "respond" /\ request[t].route = "GET /stats"
        /\ response[t].stats.inference_count = 2
        /\ pc[u] = "store_count" /\ tmp[u] = inference_count

\* Each mode runs only its own stages.
ModeDiscipline ==
    \A t \in Threads :
        /\ session = "None" => pc[t] \notin {"preprocess", "run", "decode", "rows"}
        /\ session # "None" => pc[t] # "fallback"

\* C7: the mode never changes after construction, and each mode runs only
\* its own stages: without a session no call is in the preprocessor, the
\* backend or the decoder, with a session no call is in the fallback.
C7_ModeFixed == [][session' = session]_vars /\ []ModeDiscipline

\* C7 witness: a backend-mode call has returned from a failed backend run
\* while a call that started after it is decoding rows.
C7_Witness ==
    \E t, u \in Threads :
        /\ Returned(t) /\ failed[t] = "backend"
        /\ pc[u] = "rows"
        /\ calls = 2

\* C8: under one threshold for the whole call, the decoder returns the
\* detections of exactly the rows that pass both strict comparisons, in
\* the order of the output (empty when none passes).
C8_TwoStageFilter ==
    \A t \in Threads : Decoded(t) => detections[t] = Expected(t, confidence_threshold)

\* C8 witness: of two rows that passed the first filter, the second filter
\* dropped the first and kept the second.
C8_Witness ==
    \E t \in Threads :
        /\ Returned(t) /\ Decoded(t)
        /\ Len(valid_predictions(outputs[t].rows, confidence_threshold)) = 2
        /\ ~Passes(outputs[t].rows[1], confidence_threshold)
        /\ Len(detections[t]) = 1

\* C9: the store of line 259 writes the value loaded earlier plus one,
\* whatever inference_count has become in between.
C9_StoreOfStaleLoad ==
    [][\A t \in Threads :
          (pc[t] = "store_count" /\ pc'[t] = "load_time")
              => inference_count' = tmp[t] + 1]_vars

\* C9 witness: two calls have both returned normally, neither failed, and
\* inference_count is 1.
C9_LostUpdate ==
    /\ \A t \in Threads : Returned(t) /\ failed[t] = "none"
    /\ calls = 2
    /\ inference_count = 1

\* C10: line 168 compares each row with the threshold as it is at that
\* moment: the row is appended exactly if its final confidence exceeds the
\* current confidence_threshold.
C10_RowReadsCurrentThreshold ==
    [][\A t \in Threads :
          (pc[t] = "rows" /\ valid'[t] # valid[t]) =>
              ((Len(detections'[t]) > Len(detections[t]))
                  <=> RLess(confidence_threshold, final_confidence(Head(valid[t]))))]_vars

\* C10 witness: a call has returned detections that no single threshold
\* gives (every real threshold filters like one of these grid values).
SingleThresholds == {Rat(k, ScoreScale * ScoreScale) : k \in -1..(ScoreScale * ScoreScale)}

C10_NoSingleThreshold ==
    \E t \in Threads :
        /\ Returned(t) /\ Decoded(t)
        /\ \A T \in SingleThresholds : detections[t] # Expected(t, T)
====
